---- MODULE Spec2Model ----
(***************************************************************************)
(* A model of scripts/split_serves.py: the interactive serve splitter.    *)
(* One session of split_serves() is a state machine over the playback     *)
(* position, the open mark, the in-memory next serve id, the list of      *)
(* background ffmpeg jobs, the files of the output directory and the rows *)
(* of data/metadata/serves.csv.  Each ffmpeg child is an independent      *)
(* process whose steps interleave with the steps of the control loop.     *)
(*                                                                         *)
(* Text is modelled as sequences of one-character strings, so that        *)
(* formatting (f"{serve_id:03d}", str(n)) and parsing (the regular        *)
(* expression serve_(\d{3})\.mp4$ and int()) are computed as the code     *)
(* computes them.                                                          *)
(***************************************************************************)
EXTENDS Integers, Sequences, FiniteSets, TLC

VARIABLES
    pc,           \* position of the control loop of split_serves()
    pos,          \* cap.get(CAP_PROP_POS_FRAMES): index of the next frame
    start_frame,  \* the open mark, or None
    serve_id,     \* the in-memory next serve id
    fast_active,  \* fast-forward mode
    active_jobs,  \* the list of in-flight job dicts
    proc,         \* the ffmpeg children ever started, by launch number
    files,        \* the files of the output directory
    csv_exists,   \* os.path.exists(SERVES_CSV)
    ledger,       \* the rows of SERVES_CSV, the header row included
    dir_exists,   \* os.path.isdir(output_dir)
    patch,        \* the last update_csv call of a labeling tool and its report
    max_jobs      \* the max_jobs argument of split_serves (--jobs), None by default

vars == <<pc, pos, start_frame, serve_id, fast_active,
          active_jobs, proc, files, csv_exists, ledger, dir_exists, patch, max_jobs>>

----------------------------------------------------------------------------
(* Bounds of the model. *)

NFrames == 2        \* frames in the source video
MaxJobs == 1        \* ffmpeg children started in one session
MaxInit == 2        \* highest id of a segment file found at session start
AllocIds == 3       \* well-formed low ids offered to the allocator check
DelIds == 3         \* highest id of the files left for the repeated delete
TripMax == 11       \* frame numbers 0..TripMax are written to the ledger and read back
Fps == 30           \* frames per second of the source video
OrderFirstId == 5   \* id of the first of the two jobs in flight together
UndoId == 3         \* id of the last segment of the directory of the undo session
PatchIds == 2       \* highest id of the ledger rows offered to the labeling tools

(* Program constants. *)

None == -1          \* Python's None for start_frame (frames are >= 0)
BackFrames == 30    \* frames the "b" key seeks back
FastMultiplier == 4 \* speed_multiplier in fast mode
IdWidth == 3        \* the 03d of the file name and the \d{3} of the pattern

Player == "p1"
VideoPath == "raw.mp4"
SessionId == 1

\* no update_csv call has been made
NoPatch == [tool |-> "none", clip |-> <<>>, landing_frame |-> 0, report |-> "none"]

----------------------------------------------------------------------------
(* Text. *)

Digits == <<"0", "1", "2", "3", "4", "5", "6", "7", "8", "9">>

DigitChar(d) == Digits[d + 1]

IsDigit(c) == \E i \in 1..10 : Digits[i] = c

DigitVal(c) == (CHOOSE i \in 1..10 : Digits[i] = c) - 1

Max2(a, b) == IF a >= b THEN a ELSE b

\* a str() that keeps the last digit only
StrLastDigit(n) == <<DigitChar(n % 10)>>

\* str(n) for an int n >= 0
RECURSIVE Str(_)
Str(n) == IF n < 10 THEN <<DigitChar(n)>>
          ELSE Str(n \div 10) \o <<DigitChar(n % 10)>>

RECURSIVE PadLeft(_, _)
PadLeft(s, w) == IF Len(s) >= w THEN s ELSE PadLeft(<<"0">> \o s, w)

\* f"{n:03d}": zero-padded to at least three digits, never truncated
Fmt03(n) == PadLeft(Str(n), IdWidth)

\* int(s) for a string of decimal digits
RECURSIVE ParseInt(_)
ParseInt(s) == IF s = <<>> THEN 0
               ELSE 10 * ParseInt(SubSeq(s, 1, Len(s) - 1)) + DigitVal(s[Len(s)])

Prefix == <<"s", "e", "r", "v", "e", "_">>
Suffix == <<".", "m", "p", "4">>

StartsWith(s, p) == Len(s) >= Len(p) /\ SubSeq(s, 1, Len(p)) = p
EndsWith(s, p) == Len(s) >= Len(p) /\ SubSeq(s, Len(s) - Len(p) + 1, Len(s)) = p

\* os.path.join(output_dir, f"serve_{serve_id:03d}.mp4"), as a base name
ServeName(n) == Prefix \o Fmt03(n) \o Suffix

\* glob.glob(os.path.join(output_dir, "serve_*.mp4"))
Glob(names) == {b \in names : /\ Len(b) >= Len(Prefix) + Len(Suffix)
                              /\ StartsWith(b, Prefix)
                              /\ EndsWith(b, Suffix)}

\* the pattern without its "$": anything may follow the ".mp4"
PatternMatchUnanchored(base) ==
    LET n == Len(Prefix) IN
    IF /\ Len(base) >= n + IdWidth + Len(Suffix)
       /\ StartsWith(base, Prefix)
       /\ \A i \in (n + 1)..(n + IdWidth) : IsDigit(base[i])
       /\ SubSeq(base, n + IdWidth + 1, n + IdWidth + Len(Suffix)) = Suffix
    THEN SubSeq(base, n + 1, n + IdWidth)
    ELSE <<>>

\* re.compile(r"serve_(\d{3})\.mp4$").match(base): group(1), or <<>> for no match
PatternMatch(base) ==
    LET n == Len(Prefix) IN
    IF /\ Len(base) = n + IdWidth + Len(Suffix)
       /\ StartsWith(base, Prefix)
       /\ \A i \in (n + 1)..(n + IdWidth) : IsDigit(base[i])
       /\ EndsWith(base, Suffix)
    THEN SubSeq(base, n + 1, n + IdWidth)
    ELSE <<>>

----------------------------------------------------------------------------
(* The id allocator. *)

\* the for loop of _next_serve_id over the glob's list, in any order
RECURSIVE ScanMax(_, _)
ScanMax(existing, max_id) ==
    IF existing = {} THEN max_id
    ELSE LET path == CHOOSE p \in existing : TRUE
             m == PatternMatch(path)
         IN  ScanMax(existing \ {path},
                     IF m # <<>> THEN Max2(max_id, ParseInt(m)) ELSE max_id)

\* an allocator that counts the segment files
NextServeIdByCount(names) == Cardinality(Glob(names)) + 1

NextServeId(names) == ScanMax(Glob(names), 0) + 1

----------------------------------------------------------------------------
(* The ledger file data/metadata/serves.csv. *)

Header == [player        |-> "player",
           serve_id      |-> <<"s", "e", "r", "v", "e", "_", "i", "d">>,
           session_id    |-> <<"s", "e", "s", "s", "i", "o", "n", "_", "i", "d">>,
           source_video  |-> "source_video",
           output_clip   |-> <<"o", "u", "t", "p", "u", "t", "_", "c", "l", "i", "p">>,
           start_frame   |-> <<"s", "t", "a", "r", "t", "_", "f", "r", "a", "m", "e">>,
           end_frame     |-> <<"e", "n", "d", "_", "f", "r", "a", "m", "e">>,
           landing_frame |-> <<"l", "a", "n", "d", "i", "n", "g", "_", "f", "r", "a", "m", "e">>]

\* the data row with the id written as str(serve_id)
CsvRowUnpadded(player, id, video_path, out_file, start, end, session_id) ==
    [player        |-> player,
     serve_id      |-> Str(id),
     session_id    |-> Str(session_id),
     source_video  |-> video_path,
     output_clip   |-> out_file,
     start_frame   |-> Str(start),
     end_frame     |-> Str(end),
     landing_frame |-> <<>>]

\* the data row _append_to_csv writes
CsvRow(player, id, video_path, out_file, start, end, session_id) ==
    [player        |-> player,
     serve_id      |-> Fmt03(id),
     session_id    |-> Str(session_id),
     source_video  |-> video_path,
     output_clip   |-> out_file,
     start_frame   |-> Str(start),
     end_frame     |-> Str(end),
     landing_frame |-> <<>>]

\* an append that never writes the header
AppendToCsvNoHeader(exists, rows, player, id, video_path, out_file, start, end, session_id) ==
    rows \o <<CsvRow(player, id, video_path, out_file, start, end, session_id)>>

\* an append that puts the new row above the older data rows
AppendToCsvFront(exists, rows, player, id, video_path, out_file, start, end, session_id) ==
    <<Header, CsvRow(player, id, video_path, out_file, start, end, session_id)>>
        \o (IF exists THEN SubSeq(rows, 2, Len(rows)) ELSE <<>>)

\* _append_to_csv: the file's rows afterwards (the header first on a new file)
AppendToCsv(exists, rows, player, id, video_path, out_file, start, end, session_id) ==
    (IF exists THEN rows ELSE <<Header>>)
        \o <<CsvRow(player, id, video_path, out_file, start, end, session_id)>>

\* a filter that looks at the id alone
KeepRowByIdOnly(row, player, id, out_file) == row.serve_id # Fmt03(id)

\* the filter comparing the id unpadded, as str(serve_id)
KeepRowUnpadded(row, player, id, out_file) ==
    ~(row.player = player /\ row.serve_id = Str(id) /\ row.output_clip = out_file)

\* the filter of _remove_from_csv
KeepRow(row, player, id, out_file) ==
    ~(row.player = player /\ row.serve_id = Fmt03(id) /\ row.output_clip = out_file)

\* _remove_from_csv: the file's rows afterwards (nothing happens without a file)
RemoveFromCsv(exists, rows, player, id, out_file) ==
    IF ~exists THEN rows
    ELSE SelectSeq(rows, LAMBDA row : KeepRow(row, player, id, out_file))

\* the data rows of the ledger
Rows == SelectSeq(ledger, LAMBDA row : row # Header)

----------------------------------------------------------------------------
(* The output directory and the ffmpeg children. *)

\* a file of the output directory: its base name and the child that created it
\* (0: it was there when the session started)
File(name, by) == [name |-> name, by |-> by]

NamesOf(fs) == {f.name : f \in fs}

Names == NamesOf(files)

\* what a step of a child leaves alone
loopVars == <<pc, pos, start_frame, serve_id, fast_active, active_jobs, csv_exists, ledger,
              dir_exists, patch, max_jobs>>

\* ffmpeg -n opens its output: it refuses an existing file, else creates it
FfmpegOpen(u) ==
    /\ proc[u].st = "launched"
    /\ IF proc[u].out \in Names
       THEN /\ proc' = [proc EXCEPT ![u].st = "exit1"]
            /\ UNCHANGED files
       ELSE /\ proc' = [proc EXCEPT ![u].st = "writing"]
            /\ files' = files \cup {File(proc[u].out, u)}
    /\ UNCHANGED loopVars

\* ffmpeg fails before it creates its output (bad input, bad time range)
FfmpegFail(u) ==
    /\ proc[u].st = "launched"
    /\ proc' = [proc EXCEPT ![u].st = "exit1"]
    /\ UNCHANGED <<loopVars, files>>

\* ffmpeg finishes the encode and exits 0; a file unlinked meanwhile stays gone
FfmpegDone(u) ==
    /\ proc[u].st = "writing"
    /\ proc' = [proc EXCEPT ![u].st = "exit0"]
    /\ UNCHANGED <<loopVars, files>>

\* ffmpeg fails in mid-encode and exits nonzero; its partial file is left behind
FfmpegAbort(u) ==
    /\ proc[u].st = "writing"
    /\ proc' = [proc EXCEPT ![u].st = "exit1"]
    /\ UNCHANGED <<loopVars, files>>

----------------------------------------------------------------------------
(* _start_encode_job and _harvest_finished_jobs. *)

\* the job dict _start_encode_job appends (launched_at left out)
Job(u, id, out_path, start, end) ==
    [proc |-> u, player |-> Player, serve_id |-> id, session_id |-> SessionId,
     video_path |-> VideoPath, out_file |-> out_path,
     start_frame |-> start, end_frame |-> end]

\* lines 108-109: frame / current_fps, kept as the exact quotient (the
\* rounding of the float division is not modelled)
Seconds(frame) == [num |-> frame, den |-> Fps]

\* the child subprocess.Popen starts: ffmpeg -n -ss start_s -to end_s ... out_path
Child(out_path, start, end) ==
    [st |-> "launched", out |-> out_path, ss |-> Seconds(start), to |-> Seconds(end)]

\* a child whose job dict, and with it the Popen handle, has been dropped
Reaped == [st |-> "reaped", out |-> <<>>]

\* a poll() that reports status 0 for every child that has exited
ProcPollAlwaysZero(child) == IF child.st \in {"exit0", "exit1"} THEN 0 ELSE None

\* proc.poll(): None while the child runs, else its exit status
ProcPoll(child) == CASE child.st = "exit0" -> 0
                     [] child.st = "exit1" -> 1
                     [] OTHER -> None

\* a poll that keeps every job that did not succeed
JobPendingOrFailed(ret) == ret # 0

\* line 140: ret is None
JobPending(ret) == ret = None

\* line 143 without its os.path.exists
JobSucceededNoFileCheck(ret, out_exists) == ret = 0

\* line 143 without its ret == 0
JobSucceededAnyStatus(ret, out_exists) == out_exists

\* line 143: ret == 0 and os.path.exists(job["out_file"])
JobSucceeded(ret, out_exists) == ret = 0 /\ out_exists

\* the for loop of _harvest_finished_jobs over jobs from job i on, with the
\* directory holding names; acc carries remaining, the ledger file and the children
RECURSIVE HarvestLoop(_, _, _, _)
HarvestLoop(jobs, i, names, acc) ==
    IF i > Len(jobs) THEN acc
    ELSE LET job == jobs[i]
             ret == ProcPoll(acc.proc[job.proc])
         IN
         IF JobPending(ret)
         THEN HarvestLoop(jobs, i + 1, names, [acc EXCEPT !.remaining = Append(@, job)])
         ELSE IF JobSucceeded(ret, job.out_file \in names)
         THEN HarvestLoop(jobs, i + 1, names,
                [acc EXCEPT
                   !.rows = AppendToCsv(acc.exists, @, job.player, job.serve_id,
                                        job.video_path, job.out_file,
                                        job.start_frame, job.end_frame, job.session_id),
                   !.exists = TRUE,
                   !.proc[job.proc] = Reaped])
         ELSE HarvestLoop(jobs, i + 1, names, [acc EXCEPT !.proc[job.proc] = Reaped])

\* a poll that unlinks the output of the jobs it finds failed
HarvestUnlinksFailed(jobs, children, fs, exists, rows) ==
    LET r == HarvestLoop(jobs, 1, NamesOf(fs),
                         [remaining |-> <<>>, rows |-> rows, exists |-> exists,
                          proc |-> children])
        failed == {jobs[i].out_file : i \in {k \in 1..Len(jobs) :
                                                children[jobs[k].proc].st = "exit1"}}
    IN  /\ active_jobs' = r.remaining
        /\ ledger' = r.rows
        /\ csv_exists' = r.exists
        /\ proc' = r.proc
        /\ files' = {f \in fs : f.name \notin failed}

\* _harvest_finished_jobs() on the job list, children, directory and ledger a
\* handler left: active_jobs[:] = remaining
Harvest(jobs, children, fs, exists, rows) ==
    LET r == HarvestLoop(jobs, 1, NamesOf(fs),
                         [remaining |-> <<>>, rows |-> rows, exists |-> exists,
                          proc |-> children])
    IN  /\ active_jobs' = r.remaining
        /\ ledger' = r.rows
        /\ csv_exists' = r.exists
        /\ proc' = r.proc
        /\ files' = fs

----------------------------------------------------------------------------
(* _delete_last_clip. *)

\* the for loop of _delete_last_clip: last is (last_id, last_path), <<>> for None
RECURSIVE ScanLast(_, _)
ScanLast(existing, last) ==
    IF existing = {} THEN last
    ELSE LET path == CHOOSE p \in existing : TRUE
             m == PatternMatch(path)
         IN  ScanLast(existing \ {path},
                      IF m # <<>> /\ ParseInt(m) > last.id
                      THEN [id |-> ParseInt(m), path |-> path]
                      ELSE last)

\* what _delete_last_clip finds to delete: path is <<>> when it returns False
LastClip ==
    LET existing == Glob(Names)
        last == ScanLast(existing, [id |-> 0, path |-> <<>>])
    IN  IF existing # {} /\ last.path # <<>> /\ last.path \in Names
        THEN last
        ELSE [id |-> 0, path |-> <<>>]

----------------------------------------------------------------------------
(* The control loop of split_serves(): one action per loop cycle, from        *)
(* cap.read() through the key's handler to the poll that ends the cycle.      *)

Min2(a, b) == IF a <= b THEN a ELSE b

\* a fast mode that only the speed key changes: it never reverts
FastAfterSticky(key, late) == IF key = "f" THEN TRUE ELSE fast_active

\* lines 174-180: fast mode after this cycle's key; late is
\* (now - last_fast_key_time) > 0.2, which the wall clock decides
FastAfter(key, late) ==
    IF key = "f" THEN TRUE
    ELSE IF fast_active /\ late THEN FALSE
    ELSE fast_active

\* lines 214-217: the position after the frame skipping of this cycle, from p.
\* speed_multiplier was computed (line 161) from fast_active as it was before
\* this cycle's key; cap.grab() fails at the end of the stream.
SkipFrom(p, key, late, mark) ==
    IF FastAfter(key, late) /\ ~(key = "e" /\ mark = None)
    THEN Min2(p + ((IF fast_active THEN FastMultiplier ELSE 1) - 1), NFrames)
    ELSE p

\* lines 152-172: cap.read() returns a frame, which is shown, and the key wait ends
Frame == pc = "loop" /\ pos < NFrames

\* CAP_PROP_POS_FRAMES after the read of this cycle
Cur == pos + 1

\* what every cycle but the one of "q" does besides its handler: fast mode and
\* the skipping
Cycle(key, late, p, mark) ==
    /\ fast_active' = FastAfter(key, late)
    /\ pos' = SkipFrom(p, key, late, mark)
    /\ start_frame' = mark
    /\ pc' = "loop"
    /\ UNCHANGED <<dir_exists, patch, max_jobs>>

storeVars == <<active_jobs, proc, files, csv_exists, ledger>>

\* what an earlier session left: nothing (k = 0), or one committed segment
\* with id k (its encodes for the ids below k failed)
InitFiles(k) == {File(ServeName(i), 0) : i \in {k} \ {0}}

InitRows(k) == <<Header, CsvRow(Player, k, VideoPath, ServeName(k), 1, 2, SessionId)>>

Init ==
    /\ pc = "start"
    /\ pos = 0
    /\ start_frame = None
    /\ serve_id = 0
    /\ fast_active = FALSE
    /\ patch = NoPatch
    /\ max_jobs = None
    /\ active_jobs = <<>>
    /\ proc = <<>>
    /\ \E k \in 0..MaxInit :
         /\ files = InitFiles(k)
         /\ csv_exists = (k > 0)
         /\ ledger = IF k > 0 THEN InitRows(k) ELSE <<>>
         /\ dir_exists \in (IF k > 0 THEN {TRUE} ELSE BOOLEAN)

\* lines 77-97: the session directory is made, the source opens; the first id
\* comes from the directory
OpenOk ==
    /\ pc = "start"
    /\ pc' = "loop"
    /\ dir_exists' = TRUE
    /\ serve_id' = NextServeId(Names)
    /\ UNCHANGED <<pos, start_frame, fast_active, storeVars, patch, max_jobs>>

\* lines 77-84: the session directory is made, the source does not open
OpenFail ==
    /\ pc = "start"
    /\ pc' = "openfail"
    /\ dir_exists' = TRUE
    /\ UNCHANGED <<pos, start_frame, serve_id, fast_active, storeVars, patch, max_jobs>>

\* lines 152-154: cap.read() fails at the end of the stream
EndOfStream ==
    /\ pc = "loop"
    /\ pos >= NFrames
    /\ pc' = "drain"
    /\ UNCHANGED <<pos, start_frame, serve_id, fast_active, storeVars, dir_exists, patch, max_jobs>>

\* a loop that polls only in the cycles in which a key was pressed
KeyNoopPollOnKey(key, late) ==
    /\ Frame
    /\ key \in {"none", "f", "e", "d"}
    /\ key = "e" => start_frame = None
    /\ key = "d" => start_frame # None
    /\ Cycle(key, late, Cur, start_frame)
    /\ IF key = "none"
       THEN UNCHANGED storeVars
       ELSE Harvest(active_jobs, proc, files, csv_exists, ledger)
    /\ UNCHANGED serve_id

\* an "e" with no open mark that takes the next id all the same
KeyNoopEndAdvances(key, late) ==
    /\ Frame
    /\ key \in {"none", "f", "e", "d"}
    /\ key = "e" => start_frame = None
    /\ key = "d" => start_frame # None
    /\ Cycle(key, late, Cur, start_frame)
    /\ Harvest(active_jobs, proc, files, csv_exists, ledger)
    /\ serve_id' = IF key = "e" THEN serve_id + 1 ELSE serve_id

\* a "d" that deletes whether or not a mark is open
KeyNoopDeleteOpen(key, late) ==
    /\ Frame
    /\ key \in {"none", "f", "e", "d"}
    /\ key = "e" => start_frame = None
    /\ key = "d" => start_frame # None
    /\ Cycle(key, late, Cur, start_frame)
    /\ LET last == LastClip IN
       IF key = "d" /\ last.path # <<>>
       THEN /\ Harvest(active_jobs, proc, {f \in files : f.name # last.path}, csv_exists,
                       RemoveFromCsv(csv_exists, ledger, Player, last.id, last.path))
            /\ serve_id' = last.id
       ELSE /\ Harvest(active_jobs, proc, files, csv_exists, ledger)
            /\ UNCHANGED serve_id

\* no key, "f", an unbound key, "e" with no open mark, "d" with an open mark
KeyNoop(key, late) ==
    /\ Frame
    /\ key \in {"none", "f", "e", "d"}
    /\ key = "e" => start_frame = None
    /\ key = "d" => start_frame # None
    /\ Cycle(key, late, Cur, start_frame)
    /\ Harvest(active_jobs, proc, files, csv_exists, ledger)
    /\ UNCHANGED serve_id

\* an "s" that is ignored while a mark is open
MarkStartKeepsOpen(late) ==
    /\ Frame
    /\ Cycle("s", late, Cur, IF start_frame # None THEN start_frame ELSE Cur)
    /\ Harvest(active_jobs, proc, files, csv_exists, ledger)
    /\ UNCHANGED serve_id

\* lines 182-185: "s"
MarkStart(late) ==
    /\ Frame
    /\ Cycle("s", late, Cur, Cur)
    /\ Harvest(active_jobs, proc, files, csv_exists, ledger)
    /\ UNCHANGED serve_id

\* the id taken from a fresh scan of the directory
SegmentIdRescanned == NextServeId(Names)

\* the id an end mark gives the closed segment: the in-memory serve_id
SegmentId == serve_id

\* an admission test that holds a job back once max_jobs jobs are in flight
AdmittedUnderMax(in_flight, max) == max = None \/ in_flight < max

\* lines 75 and 106-134: max_jobs is a parameter that no line reads, and
\* _start_encode_job tests nothing before subprocess.Popen
Admitted(in_flight, max) == TRUE

\* lines 187-195: "e" with an open mark; the model stops at cap children
MarkEnd(late, cap) ==
    /\ Frame
    /\ start_frame # None
    /\ Len(proc) < cap
    /\ Admitted(Len(active_jobs), max_jobs)
    /\ LET u == Len(proc) + 1
           out_file == ServeName(SegmentId)
       IN  Harvest(Append(active_jobs, Job(u, SegmentId, out_file, start_frame, Cur)),
                   Append(proc, Child(out_file, start_frame, Cur)), files, csv_exists, ledger)
    /\ serve_id' = SegmentId + 1
    /\ Cycle("e", late, Cur, None)

\* a "d" that leaves the next id alone
IdAfterDeleteKept(last) == serve_id

\* serve_id = last_id without the test of deleted
IdAfterDeleteUnguarded(last) == last.id

\* the next id after "d": the deleted id, or unchanged when nothing was deleted
IdAfterDelete(last) == IF last.path # <<>> THEN last.id ELSE serve_id

\* lines 197-201 and 29-51: "d" with no open mark
DeleteLast(late) ==
    /\ Frame
    /\ start_frame = None
    /\ LET last == LastClip IN
       /\ IF last.path # <<>>
          THEN Harvest(active_jobs, proc, {f \in files : f.name # last.path}, csv_exists,
                       RemoveFromCsv(csv_exists, ledger, Player, last.id, last.path))
          ELSE Harvest(active_jobs, proc, files, csv_exists, ledger)
       /\ serve_id' = IdAfterDelete(last)
    /\ Cycle("d", late, Cur, start_frame)

\* lines 203-208: "b"
SeekBack(late) ==
    /\ Frame
    /\ Cycle("b", late, Max2(0, Cur - BackFrames), start_frame)
    /\ Harvest(active_jobs, proc, files, csv_exists, ledger)
    /\ UNCHANGED serve_id

\* lines 210-211: "q" leaves the loop before the skipping and the poll
Quit(late) ==
    /\ Frame
    /\ fast_active' = FastAfter("q", late)
    /\ pos' = Cur
    /\ pc' = "drain"
    /\ UNCHANGED <<start_frame, serve_id, storeVars, dir_exists, patch, max_jobs>>

\* the final loop sleeping without its poll
DrainSleep ==
    /\ pc = "drain"
    /\ active_jobs # <<>>
    /\ UNCHANGED vars

\* lines 224-228: one round of the final loop with jobs left
DrainPoll ==
    /\ pc = "drain"
    /\ active_jobs # <<>>
    /\ Harvest(active_jobs, proc, files, csv_exists, ledger)
    /\ UNCHANGED <<pc, pos, start_frame, serve_id, fast_active, dir_exists, patch, max_jobs>>

\* the release without the wait for the jobs
ReleaseEarly ==
    /\ pc = "drain"
    /\ pc' = "released"
    /\ UNCHANGED <<pos, start_frame, serve_id, fast_active, storeVars, dir_exists, patch, max_jobs>>

\* lines 225-231: no job left: cap.release()
Release ==
    /\ pc = "drain"
    /\ active_jobs = <<>>
    /\ pc' = "released"
    /\ UNCHANGED <<pos, start_frame, serve_id, fast_active, storeVars, dir_exists, patch, max_jobs>>

\* the wall clock's answers that matter to a cycle: none while fast mode is off
Late == IF fast_active THEN BOOLEAN ELSE {FALSE}

\* the steps of a session in which at most cap children are started
Step(cap) ==
    \/ OpenOk
    \/ OpenFail
    \/ EndOfStream
    \/ \E key \in {"none", "f", "e", "d"}, late \in Late : KeyNoop(key, late)
    \/ \E late \in Late : MarkStart(late)
    \/ \E late \in Late : MarkEnd(late, cap)
    \/ \E late \in Late : DeleteLast(late)
    \/ \E late \in Late : SeekBack(late)
    \/ \E late \in Late : Quit(late)
    \/ DrainPoll
    \/ Release
    \/ \E u \in 1..Len(proc) : FfmpegOpen(u)
    \/ \E u \in 1..Len(proc) : FfmpegFail(u)
    \/ \E u \in 1..Len(proc) : FfmpegDone(u)
    \/ \E u \in 1..Len(proc) : FfmpegAbort(u)

Next == Step(MaxJobs)

Spec == Init /\ [][Next]_vars

\* a step of child u, whichever it is
ChildRun(u) == FfmpegOpen(u) \/ FfmpegFail(u) \/ FfmpegDone(u) \/ FfmpegAbort(u)

\* what the end of a session waits for: the final loop (it only sleeps 0.1 s
\* between polls) and the ffmpeg children that have not exited
Progress ==
    \/ DrainPoll
    \/ Release
    \/ \E u \in 1..Len(proc) : ChildRun(u)

\* the session under the scheduling the final loop relies on: the loop and
\* the children are not all stopped for ever while one of them can step
SpecLive == Spec /\ WF_vars(Progress)

\* the same session with one more child, for the races between two jobs
NextRace == Step(MaxJobs + 1)

SpecRace == Init /\ [][NextRace]_vars

----------------------------------------------------------------------------
(* The id allocator on its own: files appear in a directory, _next_serve_id   *)
(* scans it.                                                                   *)

\* file names offered to the directory: well-formed low ids, the highest
\* three-digit id, and names that match the glob or come near it
AllocNames ==
    {ServeName(i) : i \in 1..AllocIds}
    \cup {ServeName(999), ServeName(1000),
          Prefix \o <<"1", "2">> \o Suffix,
          Prefix \o <<"0", "1", "a">> \o Suffix,
          Prefix \o Suffix,
          ServeName(8) \o <<"x">> \o Suffix,
          ServeName(9) \o <<".", "b", "a", "k">>}

InitAlloc ==
    /\ pc = "alloc"
    /\ pos = 0
    /\ start_frame = None
    /\ serve_id = 0
    /\ fast_active = FALSE
    /\ dir_exists = TRUE
    /\ patch = NoPatch
    /\ max_jobs = None
    /\ active_jobs = <<>>
    /\ proc = <<>>
    /\ files = {}
    /\ csv_exists = FALSE
    /\ ledger = <<>>

\* a file appears in the output directory
AllocTouch(name) ==
    /\ pc \in {"alloc", "scanned"}
    /\ name \notin Names
    /\ files' = files \cup {File(name, 0)}
    /\ pc' = "alloc"
    /\ UNCHANGED <<pos, start_frame, serve_id, fast_active, active_jobs, proc,
                   csv_exists, ledger, dir_exists, patch, max_jobs>>

\* serve_id = _next_serve_id(output_dir), which makes the directory first
AllocScan ==
    /\ pc = "alloc"
    /\ dir_exists' = TRUE
    /\ serve_id' = NextServeId(Names)
    /\ pc' = "scanned"
    /\ UNCHANGED <<pos, start_frame, fast_active, storeVars, patch, max_jobs>>

NextAlloc ==
    \/ \E name \in AllocNames : AllocTouch(name)
    \/ AllocScan

SpecAlloc == InitAlloc /\ [][NextAlloc]_vars

----------------------------------------------------------------------------
(* Delete-last pressed in every cycle of a session: no segment is marked,     *)
(* so nothing is created between two deletes.                                  *)

\* the rows of the segments ids, in ascending order
RECURSIVE RowsOfIds(_)
RowsOfIds(ids) ==
    IF ids = {} THEN <<>>
    ELSE LET k == CHOOSE i \in ids : \A j \in ids : i <= j
         IN  <<CsvRow(Player, k, VideoPath, ServeName(k), 1, 2, SessionId)>>
                 \o RowsOfIds(ids \ {k})

\* a file that matches the glob serve_*.mp4 and not the pattern
StrayName == Prefix \o <<"1", "2">> \o Suffix

\* what earlier sessions left: segment files S, those in R committed to the
\* ledger, the others left behind by failed encodes; a stray file or none
InitDelete ==
    /\ pc = "start"
    /\ pos = 0
    /\ start_frame = None
    /\ serve_id = 0
    /\ fast_active = FALSE
    /\ dir_exists = TRUE
    /\ patch = NoPatch
    /\ max_jobs = None
    /\ active_jobs = <<>>
    /\ proc = <<>>
    /\ \E S \in SUBSET (1..DelIds) : \E R \in SUBSET S : \E stray \in BOOLEAN :
         /\ files = {File(ServeName(i), 0) : i \in S}
                        \cup (IF stray THEN {File(StrayName, 0)} ELSE {})
         /\ csv_exists = (R # {})
         /\ ledger = IF R # {} THEN <<Header>> \o RowsOfIds(R) ELSE <<>>

NextDelete ==
    \/ OpenOk
    \/ OpenFail
    \/ \E late \in Late : DeleteLast(late)
    \/ EndOfStream
    \/ Release

SpecDelete == InitDelete /\ [][NextDelete]_vars

----------------------------------------------------------------------------
(* The ledger written by the splitter and read back by regen_clips.py: a      *)
(* finished job waits for the poll that commits it.                            *)

\* the frame numbers marked: the low ones and some with more digits
TripFrames == (0..TripMax) \cup {99, 100, 250, 1000}

\* regenerate_serves: csv.DictReader takes the first row for the header; of
\* every other row, int(row["start_frame"]) and int(row["end_frame"])
RegenRead(rows) ==
    [i \in 1..(Len(rows) - 1) |->
        [start_frame |-> ParseInt(rows[i + 1].start_frame),
         end_frame   |-> ParseInt(rows[i + 1].end_frame)]]

\* the main loop was left with one job in flight, whose ffmpeg has exited 0;
\* the ledger is absent or holds one row of an earlier session
InitLedger ==
    /\ pc = "drain"
    /\ pos = 0
    /\ start_frame = None
    /\ fast_active = FALSE
    /\ dir_exists = TRUE
    /\ patch = NoPatch
    /\ max_jobs = None
    /\ \E k \in 0..1, start \in TripFrames, end \in TripFrames :
         /\ serve_id = k + 2
         /\ active_jobs = <<Job(1, k + 1, ServeName(k + 1), start, end)>>
         /\ proc = <<[Child(ServeName(k + 1), start, end) EXCEPT !.st = "exit0"]>>
         /\ files = InitFiles(k) \cup {File(ServeName(k + 1), 1)}
         /\ csv_exists = (k > 0)
         /\ ledger = IF k > 0 THEN InitRows(k) ELSE <<>>

NextLedger ==
    \/ DrainPoll
    \/ Release

SpecLedger == InitLedger /\ [][NextLedger]_vars

----------------------------------------------------------------------------
(* A session on a directory holding serve_001.mp4 .. serve_003.mp4, on a      *)
(* source long enough for marks at frames in the hundreds.  The cycles        *)
(* without a key between two marks only advance the position while no job is *)
(* in flight, and are taken together with the cycle of the key.               *)

\* the values of CAP_PROP_POS_FRAMES at which the operator presses a key
ScenarioMarks == {100, 150, 200, 250, 300}

InitScenario ==
    /\ pc = "start"
    /\ pos = 0
    /\ start_frame = None
    /\ serve_id = 0
    /\ fast_active = FALSE
    /\ dir_exists = TRUE
    /\ patch = NoPatch
    /\ max_jobs = None
    /\ active_jobs = <<>>
    /\ proc = <<>>
    /\ files = {File(ServeName(i), 0) : i \in 1..3}
    /\ csv_exists = TRUE
    /\ ledger = <<Header>> \o RowsOfIds(1..3)

\* lines 182-185: "s" in the cycle whose read leaves the position at f
MarkStartAt(f) ==
    /\ pc = "loop"
    /\ active_jobs = <<>>
    /\ f > pos
    /\ pos' = f
    /\ start_frame' = f
    /\ UNCHANGED <<pc, serve_id, fast_active, storeVars, dir_exists, patch, max_jobs>>

\* lines 187-195: "e" with an open mark in the cycle whose read leaves the
\* position at f, and the poll of that cycle
MarkEndAt(f) ==
    /\ pc = "loop"
    /\ start_frame # None
    /\ active_jobs = <<>>
    /\ Admitted(Len(active_jobs), max_jobs)
    /\ f > pos
    /\ LET u == Len(proc) + 1
           out_file == ServeName(SegmentId)
       IN  Harvest(Append(active_jobs, Job(u, SegmentId, out_file, start_frame, f)),
                   Append(proc, Child(out_file, start_frame, f)), files, csv_exists, ledger)
    /\ serve_id' = SegmentId + 1
    /\ start_frame' = None
    /\ pos' = f
    /\ UNCHANGED <<pc, fast_active, dir_exists, patch, max_jobs>>

\* lines 210-211: "q" in the next cycle
QuitNext ==
    /\ pc = "loop"
    /\ pos' = pos + 1
    /\ pc' = "drain"
    /\ UNCHANGED <<start_frame, serve_id, fast_active, storeVars, dir_exists, patch, max_jobs>>

NextScenario ==
    \/ OpenOk
    \/ OpenFail
    \/ \E f \in ScenarioMarks : MarkStartAt(f)
    \/ \E f \in ScenarioMarks : MarkEndAt(f)
    \/ QuitNext
    \/ DrainPoll
    \/ Release
    \/ \E u \in 1..Len(proc) : ChildRun(u)

SpecScenario == InitScenario /\ [][NextScenario]_vars

----------------------------------------------------------------------------
(* Two jobs in flight together, for the ids OrderFirstId and OrderFirstId + 1, *)
(* of which the second is the first to exit.                                   *)

\* the two segments were closed at the same frames after a seek back; the
\* directory holds the committed segment below them
InitOrder ==
    /\ pc = "loop"
    /\ pos = 0
    /\ start_frame = None
    /\ serve_id = OrderFirstId + 2
    /\ fast_active = FALSE
    /\ dir_exists = TRUE
    /\ patch = NoPatch
    /\ max_jobs = None
    /\ active_jobs = <<Job(1, OrderFirstId, ServeName(OrderFirstId), 1, 2),
                       Job(2, OrderFirstId + 1, ServeName(OrderFirstId + 1), 1, 2)>>
    /\ proc = <<Child(ServeName(OrderFirstId), 1, 2),
                Child(ServeName(OrderFirstId + 1), 1, 2)>>
    /\ files = InitFiles(OrderFirstId - 1)
    /\ csv_exists = TRUE
    /\ ledger = InitRows(OrderFirstId - 1)

\* a step of child u; the first child does not exit while the second runs
OrderChild(u) ==
    /\ ChildRun(u)
    /\ (u = 1 /\ proc'[1].st \in {"exit0", "exit1"})
          => proc[2].st \notin {"launched", "writing"}

NextOrder ==
    \/ \E u \in 1..Len(proc) : OrderChild(u)
    \/ KeyNoop("none", FALSE)
    \/ Quit(FALSE)
    \/ EndOfStream
    \/ DrainPoll
    \/ Release

SpecOrder == InitOrder /\ [][NextOrder]_vars

----------------------------------------------------------------------------
(* Sessions in which the operator presses a key in every cycle and never      *)
(* holds "f".  The key of a cycle then shows in what the cycle did to the     *)
(* mark and to the position: only "b" moves the position back, only "s"       *)
(* opens a mark, only "e" closes one.  In the first kind of session the keys  *)
(* are "s", "e", "b" and "q"; in the second "d" is pressed as well, but only  *)
(* while a mark is open.                                                       *)

\* the session after "s" at the first frame and a seek back: the mark is open
\* at frame 1, the next frame read is frame 0 again, nothing has been closed
InitKeys ==
    /\ pc = "loop"
    /\ pos = 0
    /\ start_frame = 1
    /\ fast_active = FALSE
    /\ dir_exists = TRUE
    /\ patch = NoPatch
    /\ max_jobs = None
    /\ active_jobs = <<>>
    /\ proc = <<>>
    /\ \E k \in 0..MaxInit :
         /\ files = InitFiles(k)
         /\ serve_id = NextServeId(NamesOf(InitFiles(k)))
         /\ csv_exists = (k > 0)
         /\ ledger = IF k > 0 THEN InitRows(k) ELSE <<>>

NextMarks ==
    \/ MarkStart(FALSE)
    \/ MarkEnd(FALSE, MaxJobs)
    \/ KeyNoop("e", FALSE)
    \/ SeekBack(FALSE)
    \/ Quit(FALSE)
    \/ EndOfStream
    \/ DrainPoll
    \/ Release
    \/ \E u \in 1..Len(proc) : ChildRun(u)

SpecMarks == InitKeys /\ [][NextMarks]_vars

NextKeys ==
    \/ NextMarks
    \/ KeyNoop("d", FALSE)

SpecKeys == InitKeys /\ [][NextKeys]_vars

----------------------------------------------------------------------------
(* An undo: on a directory holding serve_001.mp4 .. serve_<UndoId>.mp4 the    *)
(* operator may press "d" once, before closing any segment of the session.    *)

InitUndo ==
    /\ pc = "start"
    /\ pos = 0
    /\ start_frame = None
    /\ serve_id = 0
    /\ fast_active = FALSE
    /\ dir_exists = TRUE
    /\ patch = NoPatch
    /\ max_jobs = None
    /\ active_jobs = <<>>
    /\ proc = <<>>
    /\ files = {File(ServeName(i), 0) : i \in 1..UndoId}
    /\ csv_exists = TRUE
    /\ ledger = <<Header>> \o RowsOfIds(1..UndoId)

\* lines 197-201: "d", pressed while the last segment of the earlier
\* sessions is there and nothing has been closed
UndoDelete ==
    /\ proc = <<>>
    /\ File(ServeName(UndoId), 0) \in files
    /\ DeleteLast(FALSE)

NextUndo ==
    \/ OpenOk
    \/ UndoDelete
    \/ KeyNoop("none", FALSE)
    \/ MarkStart(FALSE)
    \/ MarkEnd(FALSE, MaxJobs)
    \/ SeekBack(FALSE)
    \/ Quit(FALSE)
    \/ EndOfStream
    \/ DrainPoll
    \/ Release
    \/ \E u \in 1..Len(proc) : ChildRun(u)

SpecUndo == InitUndo /\ [][NextUndo]_vars

----------------------------------------------------------------------------
(* The labeling tools: update_csv of scripts/landing_frame.py and of           *)
(* scripts/time_to_frame.py patch the landing_frame of the rows of a clip.     *)
(* csv.DictReader takes the first row of the file for the field names, which  *)
(* the ledger's header gives, and every other row for a dict.                  *)

\* the clips the tools are called with: those of the rows offered, one past
\* them, and a name no segment has
PatchClips == {ServeName(i) : i \in 1..(PatchIds + 1)} \cup {StrayName}

\* the landing frames the tools are called with
PatchFrames == {0, 7, 120}

\* a loop body that sets the landing frame of every row
PatchRowAll(row, clip, landing) == [row EXCEPT !.landing_frame = Str(landing)]

\* the body of the for loop: row["landing_frame"] = str(landing_frame)
PatchRow(row, clip, landing) ==
    IF row.output_clip = clip THEN [row EXCEPT !.landing_frame = Str(landing)] ELSE row

\* updated, after the for loop over the rows below the header
Updated(rows, clip) == \E i \in 2..Len(rows) : rows[i].output_clip = clip

\* writer.writeheader(); writer.writerows(rows)
PatchedRows(rows, clip, landing) ==
    [i \in 1..Len(rows) |-> IF i = 1 THEN rows[1] ELSE PatchRow(rows[i], clip, landing)]

\* an update that adds a row for a clip it did not find
LedgerAfterUpsert(rows, clip, landing) ==
    IF Updated(rows, clip) THEN PatchedRows(rows, clip, landing)
    ELSE Append(rows, [CsvRow(Player, 0, VideoPath, clip, 0, 0, SessionId)
                          EXCEPT !.landing_frame = Str(landing)])

\* the rows of the file after update_csv: rewritten only if updated
LedgerAfterUpdate(rows, clip, landing) ==
    IF Updated(rows, clip) THEN PatchedRows(rows, clip, landing) ELSE rows

\* what update_csv prints
Report(rows, clip) == IF Updated(rows, clip) THEN "saved" ELSE "norow"

toolVars == <<pc, pos, start_frame, serve_id, fast_active, active_jobs, proc, files,
              dir_exists, max_jobs>>

\* landing_frame.py, update_csv: open() raises when there is no ledger file
LabelerUpdate(clip, landing) ==
    /\ pc = "label"
    /\ IF csv_exists
       THEN /\ ledger' = LedgerAfterUpdate(ledger, clip, landing)
            /\ patch' = [tool |-> "labeler", clip |-> clip, landing_frame |-> landing,
                         report |-> Report(ledger, clip)]
       ELSE /\ ledger' = ledger
            /\ patch' = [tool |-> "labeler", clip |-> clip, landing_frame |-> landing,
                         report |-> "raised"]
    /\ UNCHANGED <<csv_exists, toolVars>>

\* time_to_frame.py, update_csv: returns at once when there is no ledger file
ConverterUpdate(clip, landing) ==
    /\ pc = "label"
    /\ IF csv_exists
       THEN /\ ledger' = LedgerAfterUpdate(ledger, clip, landing)
            /\ patch' = [tool |-> "converter", clip |-> clip, landing_frame |-> landing,
                         report |-> Report(ledger, clip)]
       ELSE /\ ledger' = ledger
            /\ patch' = [tool |-> "converter", clip |-> clip, landing_frame |-> landing,
                         report |-> "nofile"]
    /\ UNCHANGED <<csv_exists, toolVars>>

\* the second row a clip has when delete-last reissued its id while the first
\* job was in flight and both jobs were committed
SecondRow(i) == CsvRow(Player, i, VideoPath, ServeName(i), 2, 3, SessionId)

\* no splitter runs; the ledger holds the rows of the segments R of an earlier
\* session (two rows for segment 1 when dup), or its header alone after they
\* were all deleted, or is absent
InitPatch ==
    /\ pc = "label"
    /\ pos = 0
    /\ start_frame = None
    /\ serve_id = 0
    /\ fast_active = FALSE
    /\ dir_exists = TRUE
    /\ patch = NoPatch
    /\ max_jobs = None
    /\ active_jobs = <<>>
    /\ proc = <<>>
    /\ \E R \in SUBSET (1..PatchIds), dup \in BOOLEAN :
         /\ dup => 1 \in R
         /\ files = {File(ServeName(i), 0) : i \in R}
         /\ csv_exists \in (IF R # {} THEN {TRUE} ELSE BOOLEAN)
         /\ ledger = IF csv_exists
                     THEN <<Header>> \o RowsOfIds(R) \o (IF dup THEN <<SecondRow(1)>> ELSE <<>>)
                     ELSE <<>>

NextPatch ==
    \/ \E clip \in PatchClips, landing \in PatchFrames : LabelerUpdate(clip, landing)
    \/ \E clip \in PatchClips, landing \in PatchFrames : ConverterUpdate(clip, landing)

SpecPatch == InitPatch /\ [][NextPatch]_vars

----------------------------------------------------------------------------
(* Sessions started with and without --jobs, on an empty directory, with one *)
(* child more than the largest maximum asked for.                            *)

\* the values of --jobs the sessions are started with (None: not given)
MaxJobsArgs == {None} \cup 1..MaxJobs

InitSubmit ==
    /\ pc = "start"
    /\ pos = 0
    /\ start_frame = None
    /\ serve_id = 0
    /\ fast_active = FALSE
    /\ dir_exists = TRUE
    /\ patch = NoPatch
    /\ max_jobs \in MaxJobsArgs
    /\ active_jobs = <<>>
    /\ proc = <<>>
    /\ files = {}
    /\ csv_exists = FALSE
    /\ ledger = <<>>

NextSubmit ==
    \/ OpenOk
    \/ MarkStart(FALSE)
    \/ MarkEnd(FALSE, MaxJobs + 1)
    \/ SeekBack(FALSE)
    \/ Quit(FALSE)
    \/ EndOfStream
    \/ DrainPoll
    \/ Release
    \/ \E u \in 1..Len(proc) : ChildRun(u)

SpecSubmit == InitSubmit /\ [][NextSubmit]_vars

----------------------------------------------------------------------------

(* Sessions on a slow clock: every cycle ends more than 0.2 s after the last *)
(* speed key, so that the test of line 179 decides alone whether fast mode   *)
(* survives a cycle whose key is not "f".                                    *)

\* the session after "f" at the first frame: fast mode is on
InitFast ==
    /\ pc = "loop"
    /\ pos = 1
    /\ start_frame = None
    /\ fast_active = TRUE
    /\ dir_exists = TRUE
    /\ patch = NoPatch
    /\ max_jobs = None
    /\ active_jobs = <<>>
    /\ proc = <<>>
    /\ \E k \in 0..MaxInit :
         /\ files = InitFiles(k)
         /\ serve_id = NextServeId(NamesOf(InitFiles(k)))
         /\ csv_exists = (k > 0)
         /\ ledger = IF k > 0 THEN InitRows(k) ELSE <<>>

NextFast ==
    \/ \E key \in {"none", "f", "e", "d"} : KeyNoop(key, TRUE)
    \/ MarkStart(TRUE)
    \/ MarkEnd(TRUE, MaxJobs)
    \/ DeleteLast(TRUE)
    \/ SeekBack(TRUE)
    \/ Quit(TRUE)
    \/ EndOfStream
    \/ DrainPoll
    \/ Release
    \/ \E u \in 1..Len(proc) : ChildRun(u)

SpecFast == InitFast /\ [][NextFast]_vars

----------------------------------------------------------------------------

(* Sessions on a ledger that other sessions and the labeling tools have      *)
(* written: rows of another player, whose clips lie in that player's own     *)
(* directory, and landing frames on this player's rows.  A key is pressed in *)
(* every cycle.                                                              *)

OtherPlayer == "p2"

\* the row another player's session committed for its segment i
OtherRow(i) ==
    CsvRow(OtherPlayer, i, VideoPath, <<"p", "2", "/">> \o ServeName(i), 1, 2, SessionId)

\* this player's row for segment i, with the landing frame a labeling tool
\* has written into it when labeled
OwnRow(i, labeled) ==
    [CsvRow(Player, i, VideoPath, ServeName(i), 1, 2, SessionId)
        EXCEPT !.landing_frame = IF labeled THEN Str(40 + i) ELSE <<>>]

\* the data rows for segments i..k in the order of their commits
RECURSIVE StoreRows(_, _, _)
StoreRows(i, k, rich) ==
    IF i > Max2(k, 1) THEN <<>>
    ELSE (IF rich THEN <<OtherRow(i)>> ELSE <<>>)
            \o (IF i <= k THEN <<OwnRow(i, rich)>> ELSE <<>>)
            \o StoreRows(i + 1, k, rich)

\* segments 1..k of this player on disk and in the ledger: no segment and no
\* ledger file, one segment and its row alone, or MaxInit segments in a ledger
\* shared with the other player and labeled
InitStore ==
    /\ pc = "start"
    /\ pos = 0
    /\ start_frame = None
    /\ serve_id = 0
    /\ fast_active = FALSE
    /\ dir_exists = TRUE
    /\ patch = NoPatch
    /\ max_jobs = None
    /\ active_jobs = <<>>
    /\ proc = <<>>
    /\ \E k \in {0, 1, MaxInit}, rich \in BOOLEAN :
         /\ rich = (k = MaxInit)
         /\ files = {File(ServeName(i), 0) : i \in 1..k}
         /\ csv_exists = (k > 0 \/ rich)
         /\ ledger = IF k > 0 \/ rich THEN <<Header>> \o StoreRows(1, k, rich) ELSE <<>>

NextStore ==
    \/ OpenOk
    \/ MarkStart(FALSE)
    \/ MarkEnd(FALSE, MaxJobs)
    \/ DeleteLast(FALSE)
    \/ SeekBack(FALSE)
    \/ Quit(FALSE)
    \/ EndOfStream
    \/ DrainPoll
    \/ Release
    \/ \E u \in 1..Len(proc) : ChildRun(u)

SpecStore == InitStore /\ [][NextStore]_vars

----------------------------------------------------------------------------

(* Properties. *)

MaxOf(S) == CHOOSE m \in S : \A x \in S : x <= m

\* every data row's clip is a file of the directory
NoDanglingRow == \A i \in 1..Len(Rows) : Rows[i].output_clip \in Names

\* a step of an ffmpeg child
ChildStep ==
    /\ Len(proc') = Len(proc)
    /\ \E u \in 1..Len(proc) :
         proc'[u].st # proc[u].st /\ proc'[u].st \in {"writing", "exit0", "exit1"}

\* a step that ends with _harvest_finished_jobs(): a loop cycle or a round of
\* the final loop
PollStep == pc \in {"loop", "drain"} /\ pc' = pc /\ ~ChildStep

\* a loop cycle in which delete-last removed a file
DelStep == pc = "loop" /\ Names' # Names /\ Names' \subseteq Names

\* a loop cycle that closed a segment
CloseStep == Len(proc') = Len(proc) + 1

\* the job a CloseStep started
NewJob == active_jobs'[Len(active_jobs')]

StillRunning(job) == proc[job.proc].st \in {"launched", "writing"}

\* C1: right after a poll returns, every ledger row's output_clip is a file
\* on disk (no dangling row).
C1_NoDanglingRowAfterPoll == [][PollStep => NoDanglingRow']_vars

\* a poll has committed the file of a job of this session
C1_Witness ==
    /\ pc = "loop"
    /\ \E f \in files : /\ f.by > 0
                        /\ proc[f.by] = Reaped
                        /\ \E i \in 1..Len(Rows) : Rows[i].output_clip = f.name

\* C2 as claimed: in every state a file of the directory exists iff a ledger
\* row names it.
C2_FileIffRow ==
    /\ NoDanglingRow
    /\ \A f \in files : \E i \in 1..Len(Rows) : Rows[i].output_clip = f.name

\* C2, amended: in every state between the steps of the control loop and of
\* the children, every ledger row's output_clip is a file on disk; a file may
\* exist without a row.
C2_RowImpliesFile == NoDanglingRow

\* a committed row beside a file no row names
C2_Witness ==
    /\ Rows # <<>>
    /\ \E f \in files : \A i \in 1..Len(Rows) : Rows[i].output_clip # f.name

\* C3 as claimed: every job handed to _start_encode_job has
\* end_frame > start_frame.
C3_SegmentsAdvance ==
    \A i \in 1..Len(active_jobs) :
        active_jobs[i].end_frame > active_jobs[i].start_frame

\* C4 as claimed: the in-flight list never holds two jobs for one output_clip.
C4_OneJobPerClip ==
    \A i, j \in 1..Len(active_jobs) :
        i # j => active_jobs[i].out_file # active_jobs[j].out_file

\* C5 as claimed: no two ledger rows share an output_clip or a serve_id.
C5_UniqueRows ==
    \A i, j \in 1..Len(Rows) :
        i # j => /\ Rows[i].output_clip # Rows[j].output_clip
                 /\ Rows[i].serve_id # Rows[j].serve_id

\* C6 as claimed: the id given to a closed segment is one greater than the
\* maximum id among the segment files existing at that moment.
C6_IdFromDirectory ==
    [][CloseStep => NewJob.serve_id = 1 + MaxOf({0} \cup
           {ParseInt(PatternMatch(b)) : b \in {x \in Names : PatternMatch(x) # <<>>}})]_vars

\* C6, amended: the id given to a closed segment is the in-memory next id,
\* which is scanned from the directory at session start, advances by one with
\* each closed segment, becomes the deleted id when delete-last removes a
\* file, and changes at no other step.
C6_IdFromCounter ==
    [][/\ (pc = "start" /\ pc' = "loop") => serve_id' = NextServeId(Names)
       /\ CloseStep => /\ NewJob.serve_id = serve_id
                       /\ NewJob.out_file = ServeName(serve_id)
                       /\ serve_id' = serve_id + 1
       /\ (pc = "loop" /\ Names' # Names /\ Names' \subseteq Names)
             => Names \ Names' = {ServeName(serve_id')}
       /\ (pc # "start" /\ ~CloseStep /\ ~(pc = "loop" /\ Names' # Names /\ Names' \subseteq Names))
             => serve_id' = serve_id]_vars

\* a segment was closed with an id that is not one above the directory's maximum
C6_Witness ==
    \E i \in 1..Len(active_jobs) :
        /\ proc[active_jobs[i].proc].st = "launched"
        /\ active_jobs[i].serve_id # NextServeId(Names)

\* the names the tool writes for the ids the pattern can hold
MaxPatternId == 10 ^ IdWidth - 1

NameOfId == [n \in 0..MaxPatternId |-> ServeName(n)]

\* C7: _next_serve_id returns 1 + the maximum id of the files named
\* serve_NNN.mp4 (three digits), 1 when there is none, whatever other files
\* matching the glob the directory holds.
C7_NextIsMaxPlusOne ==
    pc = "scanned" =>
        serve_id = 1 + MaxOf({0} \cup {n \in 0..MaxPatternId : NameOfId[n] \in Names})

\* a scan of a directory holding a well-formed file and a malformed one
C7_Witness ==
    /\ pc = "scanned"
    /\ serve_id > 1
    /\ \E b \in Glob(Names) : PatternMatch(b) = <<>>

\* the rows a poll appends for the jobs it finds exited with status 0 and
\* their file present
WonRows(jobs, names) ==
    LET won == SelectSeq(jobs, LAMBDA j : proc[j.proc].st = "exit0" /\ j.out_file \in names)
    IN  [i \in 1..Len(won) |->
            CsvRow(won[i].player, won[i].serve_id, won[i].video_path, won[i].out_file,
                   won[i].start_frame, won[i].end_frame, won[i].session_id)]

\* C8: rows are appended only by a poll, and a poll appends exactly one row
\* for each job it finds exited with status 0 and its file present: none for
\* a job that failed, whose file is missing, or that still runs.
C8_RowPerSuccess ==
    [][LET new == WonRows(active_jobs, Names')
           n == Len(new)
       IN  /\ (PollStep /\ Names' = Names) => Rows' = Rows \o new
           /\ (PollStep /\ Names' # Names) =>
                 /\ Len(Rows') <= Len(Rows) + n
                 /\ Len(Rows') >= n
                 /\ SubSeq(Rows', Len(Rows') - n + 1, Len(Rows')) = new
           /\ ~PollStep => Rows' = Rows]_vars

\* a job that failed in mid-encode was classified: its partial file has no row
C8_Witness ==
    \E f \in files : /\ f.by > 0
                     /\ proc[f.by] = Reaped
                     /\ \A i \in 1..Len(Rows) : Rows[i].output_clip # f.name

\* C9: a poll leaves in flight exactly the jobs whose child still runs, in
\* order; the jobs it removes are classified there and then; no other step
\* removes a job.
C9_PollKeepsRunning ==
    [][LET kept == SelectSeq(active_jobs, StillRunning) IN
       /\ (PollStep /\ ~CloseStep) => active_jobs' = kept
       /\ (PollStep /\ CloseStep) =>
             /\ Len(active_jobs') = Len(kept) + 1
             /\ SubSeq(active_jobs', 1, Len(kept)) = kept
             /\ NewJob.proc = Len(proc')
       /\ PollStep => \A i \in 1..Len(active_jobs) :
                         ~StillRunning(active_jobs[i]) => proc'[active_jobs[i].proc] = Reaped
       /\ ~PollStep => active_jobs' = active_jobs
       /\ \A i \in 1..Len(active_jobs') : proc'[active_jobs'[i].proc] # Reaped]_vars

\* a poll has removed an exited job
C9_Witness ==
    /\ pc \in {"loop", "drain"}
    /\ active_jobs = <<>>
    /\ \E u \in 1..Len(proc) : proc[u] = Reaped

\* C10: the source is released only with no job in flight and with every
\* child ever started exited and classified by a poll.
C10_DrainBeforeRelease ==
    pc = "released" =>
        /\ active_jobs = <<>>
        /\ \A u \in 1..Len(proc) : proc[u] = Reaped

\* released after "q" with a job submitted in the session
C10_Witness ==
    /\ pc = "released"
    /\ pos < NFrames
    /\ Len(proc) > 0

\* C11: if every ffmpeg child eventually exits, the final loop ends: once
\* the main loop is left, by "q" or by the end of the stream, the in-flight
\* list becomes empty and the source is released.
C11_DrainTerminates == (pc = "drain") ~> (pc = "released" /\ active_jobs = <<>>)

\* released after the end of the stream with a job submitted in the session
C11_Witness ==
    /\ pc = "released"
    /\ pos >= NFrames
    /\ Len(proc) > 0

\* the id a data row carries
RowId(row) == ParseInt(row.serve_id)

\* C12 as claimed: an accepted delete-last removes exactly one ledger row,
\* the one with the maximum serve_id, with its file, and nothing else.
C12_ExactlyOneRow ==
    [][DelStep =>
         \E i \in 1..Len(Rows) :
            /\ \A j \in 1..Len(Rows) : RowId(Rows[j]) <= RowId(Rows[i])
            /\ Rows' = SubSeq(Rows, 1, i - 1) \o SubSeq(Rows, i + 1, Len(Rows))
            /\ Names' = Names \ {Rows[i].output_clip}]_vars

\* C13 as claimed: a delete-last that follows a delete-last, with no segment
\* created in between, removes no file and no row and keeps the next id.
C13_SecondDeleteNoop ==
    [][(pc = "loop" /\ pc' = "loop" /\ pos >= 1)
          => (files' = files /\ ledger' = ledger /\ serve_id' = serve_id)]_vars

\* C14 as claimed: the file delete-last removes is that of the segment
\* allocated last, the one with the id below the next id.
C14_DeletesLastAllocated ==
    [][DelStep => Names \ Names' = {ServeName(serve_id - 1)}]_vars

\* C20 as claimed: delete-last removes nothing while a job is in flight that
\* can still be committed.
C20_NoDeleteWhileInFlight ==
    [][DelStep => \A i \in 1..Len(active_jobs) :
                     proc[active_jobs[i].proc].st \notin {"launched", "writing", "exit0"}]_vars

\* C19: the first id of a session is one above the highest id among the
\* files named serve_NNN.mp4 that the directory holds when the session
\* starts, whatever rows the ledger holds and whatever earlier sessions did.
C19_FirstIdFromDirectory ==
    [][(pc = "start" /\ pc' = "loop") =>
          serve_id' = 1 + MaxOf({0} \cup {n \in 0..MaxPatternId : NameOfId[n] \in Names'})]_vars

\* a session started on a directory with a gap below a file that has no row
C19_Witness ==
    /\ pc = "loop"
    /\ pos = 0
    /\ serve_id = 3
    /\ ServeName(1) \notin Names
    /\ ledger = <<>>

\* C18: when a poll appends a job's row, regenerate_serves reading the
\* ledger back gets, for that row, the job's start_frame and end_frame as
\* the integers they were.
C18_FramesRoundTrip ==
    [][(PollStep /\ Len(active_jobs) = 1 /\ Len(Rows') = Len(Rows) + 1) =>
          LET read == RegenRead(ledger') IN
          /\ Len(read) = Len(Rows')
          /\ read[Len(read)] = [start_frame |-> active_jobs[1].start_frame,
                                end_frame   |-> active_jobs[1].end_frame]]_vars

\* a committed row with a three-digit start frame and a one-digit end frame
C18_Witness ==
    /\ pc \in {"drain", "released"}
    /\ Rows # <<>>
    /\ Len(Rows[Len(Rows)].start_frame) = 3
    /\ Len(Rows[Len(Rows)].end_frame) = 1

\* C16 as claimed: once a poll has found that a job's encode exited nonzero,
\* the next id is the id of that job again.
C16_FailedSlotRetried ==
    [][\A i \in 1..Len(active_jobs) :
          (PollStep /\ proc[active_jobs[i].proc].st = "exit1")
             => serve_id' = active_jobs[i].serve_id]_vars

\* C16, amended: the poll that finds a job's encode exited nonzero drops the
\* job, appends no row for it and leaves the next id as it is: the id of
\* the failed job is not handed out again by the failure.
C16_FailedSlotNotRetried ==
    [][\A i \in 1..Len(active_jobs) :
          LET job == active_jobs[i] IN
          (PollStep /\ proc[job.proc].st = "exit1") =>
             /\ proc'[job.proc] = Reaped
             /\ \A k \in 1..Len(active_jobs') : active_jobs'[k].proc # job.proc
             /\ (\A k \in 1..Len(active_jobs) : k # i => StillRunning(active_jobs[k]))
                   => IF DelStep THEN Len(Rows') <= Len(Rows) ELSE Rows' = Rows
             /\ (~DelStep /\ ~CloseStep) => serve_id' = serve_id
             /\ CloseStep => serve_id' = serve_id + 1]_vars

\* the encode for id 1 failed without output in an empty directory: the next
\* id is 2
C16_Witness ==
    /\ pc = "loop"
    /\ Len(proc) = 1
    /\ proc[1] = Reaped
    /\ files = {}
    /\ ledger = <<>>
    /\ serve_id = 2

\* the row of the scenario, written out
Row004 ==
    [player        |-> Player,
     serve_id      |-> <<"0", "0", "4">>,
     session_id    |-> <<"1">>,
     source_video  |-> VideoPath,
     output_clip   |-> <<"s", "e", "r", "v", "e", "_", "0", "0", "4", ".", "m", "p", "4">>,
     start_frame   |-> <<"1", "0", "0">>,
     end_frame     |-> <<"2", "5", "0">>,
     landing_frame |-> <<>>]

\* C17: on a directory holding serve_001.mp4 .. serve_003.mp4 the session
\* starts with id 4; the segment marked from frame 100 to frame 250 is
\* submitted as serve_004.mp4 with the time range 100/fps to 250/fps; the poll
\* that finds its encode succeeded appends exactly the row with serve_id
\* "004", start_frame "100", end_frame "250" and an empty landing_frame.
C17_Scenario ==
    [][/\ (pc = "start" /\ pc' = "loop") => serve_id' = 4
       /\ (CloseStep /\ start_frame = 100 /\ pos' = 250) =>
             /\ NewJob.serve_id = 4
             /\ NewJob.out_file = Row004.output_clip
             /\ proc'[Len(proc')].out = Row004.output_clip
             /\ proc'[Len(proc')].ss = [num |-> 100, den |-> Fps]
             /\ proc'[Len(proc')].to = [num |-> 250, den |-> Fps]
       /\ (/\ PollStep
           /\ Len(active_jobs) = 1
           /\ active_jobs[1].start_frame = 100
           /\ active_jobs[1].end_frame = 250
           /\ proc[1].st = "exit0"
           /\ active_jobs[1].out_file \in Names) => Rows' = Rows \o <<Row004>>]_vars

\* the session is over and the row of the scenario is the last of the ledger
C17_Witness ==
    /\ pc = "released"
    /\ Len(Rows) = 4
    /\ Rows[4] = Row004

\* the place of the row with id n among the data rows, 0 when there is none
RowIndex(n) ==
    LET at == {i \in 1..Len(Rows) : RowId(Rows[i]) = n}
    IN  IF at = {} THEN 0 ELSE CHOOSE i \in at : TRUE

\* C15 as claimed: of two jobs in flight together of which the second exits
\* first, the second's row stands above the first's in the ledger.
C15_CompletionOrder ==
    (RowIndex(OrderFirstId) > 0 /\ RowIndex(OrderFirstId + 1) > 0)
        => RowIndex(OrderFirstId + 1) < RowIndex(OrderFirstId)

\* C15, amended: rows are appended in the order in which the polls find the
\* jobs exited: a poll that finds only the second job exited appends its row
\* while the first still runs; a poll that finds both exited appends their
\* rows in submission order, whichever exited first.  No exit and no poll
\* changes the next id.
C15_PollOrder ==
    [][LET first  == active_jobs[1]
           second == active_jobs[2]
           done(job) == proc[job.proc].st = "exit0" /\ job.out_file \in Names
           row(job) == CsvRow(job.player, job.serve_id, job.video_path, job.out_file,
                              job.start_frame, job.end_frame, job.session_id)
       IN  /\ (PollStep /\ Len(active_jobs) = 2 /\ done(second) /\ StillRunning(first))
                 => (Rows' = Rows \o <<row(second)>> /\ active_jobs' = <<first>>)
           /\ (PollStep /\ Len(active_jobs) = 2 /\ done(second) /\ done(first))
                 => (Rows' = Rows \o <<row(first), row(second)>> /\ active_jobs' = <<>>)
           /\ serve_id' = serve_id]_vars

\* both rows are committed, the second job's first
C15_Witness ==
    /\ RowIndex(OrderFirstId + 1) > 0
    /\ RowIndex(OrderFirstId) > RowIndex(OrderFirstId + 1)

\* C27 as claimed: a session whose source does not open mutates nothing: no
\* id is allocated, no job is submitted, the ledger is unchanged and nothing
\* is created or removed in the output directory tree.
C27_OpenFailMutatesNothing ==
    [][(pc = "start" /\ pc' = "openfail") =>
          UNCHANGED <<serve_id, active_jobs, proc, files, csv_exists, ledger, dir_exists>>]_vars

\* a loop cycle whose key does not seek back
KeyStep == pc = "loop" /\ pc' = "loop" /\ pos' = pos + 1

\* C21: a cycle with "d" pressed while a mark is open removes no file and
\* no ledger row (its poll may append rows) and leaves the open start frame
\* and the next id as they were.  With "s", "e" or "d" pressed in every such
\* cycle, the mark stays what it was under "d" alone (or under an "s" at the
\* very frame of the mark).
C21_DeleteBlockedWhileOpen ==
    [][(KeyStep /\ start_frame # None /\ start_frame' = start_frame) =>
          /\ files' = files
          /\ Len(Rows') >= Len(Rows)
          /\ SubSeq(Rows', 1, Len(Rows)) = Rows
          /\ serve_id' = serve_id]_vars

\* "d" at frame 2 with the mark open at frame 1 and a committed segment to
\* delete: the mark, the file and its row are still there
C21_Witness ==
    /\ pc = "loop"
    /\ start_frame = 1
    /\ pos = 2
    /\ proc = <<>>
    /\ files # {}
    /\ Rows # <<>>

\* C22: after the delete-last that removed the segment with id N the next
\* id is N, and the next segment the operator closes is submitted with id N
\* and the output path of segment N; without the delete it gets id N + 1.
C22_NextIdIsDeletedId ==
    LET deleted == File(ServeName(UndoId), 0) \notin files
        N == IF deleted THEN UndoId ELSE UndoId + 1
    IN  /\ (pc = "loop" /\ proc = <<>>) => serve_id = N
        /\ \A i \in 1..Len(active_jobs) :
              active_jobs[i].proc = 1 =>
                 /\ active_jobs[i].serve_id = N
                 /\ active_jobs[i].out_file = ServeName(N)
                 /\ proc[1].st # "reaped" => proc[1].out = ServeName(N)

\* the segment closed after the delete is in flight with the deleted id, its
\* child writing the file of that name anew
C22_Witness ==
    /\ File(ServeName(UndoId), 0) \notin files
    /\ File(ServeName(UndoId), 1) \in files
    /\ \E i \in 1..Len(active_jobs) : active_jobs[i].serve_id = UndoId

\* C23 as claimed: in a cycle whose frame is at or before the open start
\* frame, whatever the key, no segment is emitted, no job is submitted, the
\* next id does not advance and the mark stays open.
C23_NonAdvancingEndIgnored ==
    [][(pc = "loop" /\ start_frame # None /\ pos + 1 <= start_frame) =>
          /\ Len(proc') = Len(proc)
          /\ active_jobs' = SelectSeq(active_jobs, StillRunning)
             \/ active_jobs' = active_jobs
          /\ serve_id' = serve_id
          /\ start_frame' # None]_vars

\* C24: a cycle with "e" pressed while no mark is open does what a cycle
\* without a key does, the poll and nothing else: no job is submitted, the
\* next id and the files are unchanged, the mark stays closed, the in-flight
\* list loses the exited jobs only and the ledger gains their rows only.
\* With "s", "e" or "b" pressed in every cycle without a mark, the mark stays
\* closed and the position advances under "e" alone.
C24_EndWhileIdleNoop ==
    [][(KeyStep /\ start_frame = None /\ start_frame' = None) =>
          /\ Len(proc') = Len(proc)
          /\ serve_id' = serve_id
          /\ files' = files
          /\ active_jobs' = SelectSeq(active_jobs, StillRunning)
          /\ Rows' = Rows \o WonRows(active_jobs, Names)]_vars

\* "e" at frame 2 after the segment closed at frame 1: its job is the only
\* one, the next id is one above its id
C24_Witness ==
    /\ pc = "loop"
    /\ start_frame = None
    /\ pos = 2
    /\ Len(proc) = 1
    /\ Len(active_jobs) = 1
    /\ active_jobs[1].end_frame = 1
    /\ serve_id = active_jobs[1].serve_id + 1

\* C25: a cycle with "s" pressed while a mark is open moves the mark to
\* the current frame, submits no job and leaves the next id alone; the
\* segment the next "e" closes starts at the mark as it then is and ends at
\* the frame of the "e".  With "s", "e" or "b" pressed in every cycle, a mark
\* stays open while the position advances under "s" alone.
C25_RestartReplacesMark ==
    [][/\ (KeyStep /\ start_frame # None /\ start_frame' # None) =>
             /\ start_frame' = pos + 1
             /\ Len(proc') = Len(proc)
             /\ serve_id' = serve_id
       /\ CloseStep =>
             /\ NewJob.start_frame = start_frame
             /\ NewJob.end_frame = pos + 1
             /\ proc'[Len(proc')].ss = Seconds(start_frame)
             /\ start_frame' = None]_vars

\* the mark opened at frame 1 has been moved to frame 2, nothing closed
C25_Witness ==
    /\ pc = "loop"
    /\ start_frame = 2
    /\ proc = <<>>

\* C26: a poll changes the in-flight list and the ledger only.  A round of
\* the final loop, which is a poll and nothing else, leaves the position, the
\* mark, the next id, the files and the directory alone and starts no child.
\* In a loop cycle, whose handler runs before the poll, a file goes only by
\* delete-last, a child is started only by a closing "e", and the next id
\* changes only with one of the two.  The children a poll finds exited are
\* dropped, the others untouched: a failed job is in flight no more, and the
\* only job a cycle adds is the one of the segment the operator closes in it.
C26_PollFrame ==
    [][PollStep =>
          /\ pc = "drain" =>
                /\ UNCHANGED <<pos, start_frame, serve_id, fast_active, files, dir_exists>>
                /\ Len(proc') = Len(proc)
          /\ ~DelStep => files' = files
          /\ ~CloseStep => Len(proc') = Len(proc)
          /\ (~DelStep /\ ~CloseStep) => serve_id' = serve_id
          /\ \A u \in 1..Len(proc) :
                \/ proc'[u] = proc[u]
                \/ proc[u].st \in {"exit0", "exit1"} /\ proc'[u] = Reaped
          /\ \A i \in 1..Len(active_jobs) :
                proc[active_jobs[i].proc].st = "exit1" =>
                   \A k \in 1..Len(active_jobs') :
                      active_jobs'[k].proc # active_jobs[i].proc
          /\ \A k \in 1..Len(active_jobs') :
                \/ \E i \in 1..Len(active_jobs) : active_jobs[i] = active_jobs'[k]
                \/ /\ CloseStep
                   /\ k = Len(active_jobs')
                   /\ active_jobs'[k].start_frame = start_frame
                   /\ active_jobs'[k].serve_id = serve_id]_vars

\* a poll classified a failed job while a mark was open: its partial file
\* is still there without a row, the mark is still open
C26_Witness ==
    /\ pc = "loop"
    /\ start_frame # None
    /\ Len(proc) = 1
    /\ proc[1] = Reaped
    /\ \E f \in files : /\ f.by = 1
                        /\ \A i \in 1..Len(Rows) : Rows[i].output_clip # f.name

\* the directory holds no file named serve_NNN.mp4
NoSegmentFile == \A b \in Names : PatternMatch(b) = <<>>

\* C28: a cycle with "d" pressed while the directory holds no segment file
\* (it is empty, or holds only files that do not match the pattern) removes
\* no file, leaves the ledger file as it is, absent or not, and leaves the
\* next id and the mark unchanged.
C28_DeleteNothingNoop ==
    [][(pc = "loop" /\ pc' = "loop" /\ NoSegmentFile) =>
          UNCHANGED <<files, ledger, csv_exists, serve_id, start_frame, active_jobs, proc>>]_vars

\* after "d" in two cycles the directory holds the stray file alone, the
\* ledger its header alone
C28_Witness ==
    /\ pc = "loop"
    /\ pos = 2
    /\ Names = {StrayName}
    /\ ledger = <<Header>>
    /\ serve_id = 1

\* C30: every loop cycle that does not leave the loop ends with a poll,
\* whatever its key and with no key at all: every job whose child had exited
\* when the cycle began is classified in it (dropped from the in-flight list,
\* its row appended if it exited 0 with its file there), so that no job of an
\* exited child is in flight when the cycle ends.  The cycle that leaves the
\* loop, by "q" or at the end of the stream, does not poll.
C30_PollEveryCycle ==
    [][/\ (pc = "loop" /\ pc' = "loop" /\ ~ChildStep) =>
             /\ \A i \in 1..Len(active_jobs) :
                   LET job == active_jobs[i] IN
                   ~StillRunning(job) =>
                      /\ proc'[job.proc] = Reaped
                      /\ \A k \in 1..Len(active_jobs') : active_jobs'[k].proc # job.proc
                      /\ (proc[job.proc].st = "exit0" /\ job.out_file \in Names') =>
                            \E r \in 1..Len(Rows') : Rows'[r].output_clip = job.out_file
             /\ \A k \in 1..Len(active_jobs') :
                   proc'[active_jobs'[k].proc].st \in {"launched", "writing"}
       /\ (pc = "loop" /\ pc' = "drain") => UNCHANGED <<active_jobs, proc, ledger, csv_exists>>]_vars

\* the cycles of the main loop have classified the job of the session and
\* the stream is at its end
C30_Witness ==
    /\ pc = "loop"
    /\ pos = NFrames
    /\ active_jobs = <<>>
    /\ Len(proc) = 1
    /\ proc[1] = Reaped

\* C29: an update_csv call, of the labeler or of the converter, for a clip
\* that no ledger row names leaves the ledger file as it is, creates and
\* removes nothing, and reports that no row was found.  (With no ledger file
\* at all nothing is written either: the converter reports the missing file,
\* the labeler's open() raises.)
C29_MissLeavesLedger ==
    [][(/\ patch'.tool # "none"
        /\ \A i \in 1..Len(Rows) : Rows[i].output_clip # patch'.clip) =>
          /\ ledger' = ledger
          /\ csv_exists' = csv_exists
          /\ files' = files
          /\ patch'.report = IF csv_exists THEN "norow"
                             ELSE IF patch'.tool = "labeler" THEN "raised" ELSE "nofile"]_vars

\* the labeler was called for a clip without a row after an earlier call
\* had set the landing frame of a row: the miss is reported, the row is kept
C29_Witness ==
    /\ patch.tool = "labeler"
    /\ patch.report = "norow"
    /\ patch.clip = ServeName(PatchIds + 1)
    /\ \E i \in 1..Len(Rows) : Rows[i].landing_frame = <<"1", "2", "0">>

C33_HeaderFirstAndOnce ==
    csv_exists =>
        /\ Len(ledger) >= 1
        /\ ledger[1] = Header
        /\ \A i \in 2..Len(ledger) : ledger[i] # Header

\* delete-last has removed the only data row of a ledger, while a segment of
\* this session was closed
C33_Witness == pc = "loop" /\ csv_exists /\ ledger = <<Header>> /\ proc # <<>>

IsPrefix(s, t) == Len(s) <= Len(t) /\ SubSeq(t, 1, Len(s)) = s

\* the file a DelStep removed
Removed == CHOOSE n \in Names : n \notin Names'

\* C35: a step that deletes no file leaves the ledger a prefix of the new
\* ledger; a cycle in which delete-last removed file serve_<id>.mp4 leaves,
\* in their order and with all their fields, exactly the rows that are not
\* (this player, id zero-padded, that file), before the rows its poll appends.
C35_AppendOnlyApartFromDelete ==
    [][IF DelStep
       THEN LET id == ParseInt(PatternMatch(Removed))
                kept == SelectSeq(ledger, LAMBDA row :
                            ~(/\ row.player = Player
                              /\ row.serve_id = Fmt03(id)
                              /\ row.output_clip = Removed))
            IN  IsPrefix(kept, ledger')
       ELSE IsPrefix(ledger, ledger')]_vars

\* segment MaxInit was deleted and closed again: the other player's row of
\* that id and the labeled row of segment 1 are still there, and the newly
\* committed row is the last one
C35_Witness ==
    /\ pc = "loop"
    /\ Len(ledger) >= 4
    /\ \E i \in 1..Len(ledger) : ledger[i] = OtherRow(MaxInit)
    /\ \E i \in 1..Len(ledger) : ledger[i] = OwnRow(1, TRUE)
    /\ ledger[Len(ledger)].player = Player
    /\ ledger[Len(ledger)].serve_id = Fmt03(MaxInit)
    /\ ledger[Len(ledger)].landing_frame = <<>>

\* C34 as claimed: a poll commits a job only when the file at its output_clip
\* was produced by that job's process, or by a process that encoded the same
\* frames (the ledger row then describes the file it points to).
C34_RowDescribesFile ==
    [][PollStep =>
          \A i \in 1..Len(active_jobs) :
              LET job == active_jobs[i] IN
              (proc[job.proc].st = "exit0" /\ job.out_file \in Names') =>
                  \E f \in files' :
                      /\ f.name = job.out_file
                      /\ \/ f.by = job.proc
                         \/ /\ f.by # 0
                            /\ \/ proc[f.by].st = "reaped"
                               \/ /\ proc[f.by].ss = Seconds(job.start_frame)
                                  /\ proc[f.by].to = Seconds(job.end_frame)]_vars

\* the ids whose files the directories of SpecAlloc can hold
ToolIds == (1..AllocIds) \cup {MaxPatternId, MaxPatternId + 1}

\* C36 as claimed: when every file of the directory is a segment file this
\* tool writes (serve_<id zero-padded to 3 digits or more>.mp4), the scanned
\* next id is greater than the id of every one of them, ids of 1000 and
\* above included.
C36_AboveEveryToolFile ==
    (pc = "scanned" /\ \A b \in Names : \E n \in ToolIds : b = ServeName(n)) =>
        \A n \in ToolIds : ServeName(n) \in Names => serve_id > n

\* C37: an update_csv call, of the labeler or of the converter, for a clip
\* that some ledger row names rewrites the ledger with the same header, the
\* same number of rows in the same order, landing_frame set to the text of
\* the given frame on every row of that clip with its other fields as they
\* were, and every other row as it was; it reports the save and touches no
\* other file.
C37_PatchSetsOnlyLandingFrame ==
    [][(/\ patch'.tool # "none"
        /\ csv_exists
        /\ \E i \in 1..Len(Rows) : Rows[i].output_clip = patch'.clip) =>
          /\ csv_exists'
          /\ files' = files
          /\ patch'.report = "saved"
          /\ Len(ledger') = Len(ledger)
          /\ ledger'[1] = ledger[1]
          /\ \A i \in 2..Len(ledger) :
                ledger'[i] = IF ledger[i].output_clip = patch'.clip
                             THEN [ledger[i] EXCEPT
                                      !.landing_frame = Str(patch'.landing_frame)]
                             ELSE ledger[i]]_vars

\* a call has set the landing frame on both rows of a clip, their frames
\* still differing, while a row of another clip has none
C37_Witness ==
    /\ patch.report = "saved"
    /\ patch.landing_frame = 120
    /\ \E i, j \in 1..Len(Rows) :
         /\ i # j
         /\ Rows[i].output_clip = patch.clip
         /\ Rows[j].output_clip = patch.clip
         /\ Rows[i].landing_frame = <<"1", "2", "0">>
         /\ Rows[j].landing_frame = <<"1", "2", "0">>
         /\ Rows[i].start_frame # Rows[j].start_frame
    /\ \E k \in 1..Len(Rows) : Rows[k].output_clip # patch.clip /\ Rows[k].landing_frame = <<>>

====
